---- MODULE Spec2Model ----
(***************************************************************************)
(* Model of surfacecode: the syndrome-extraction cycle builders            *)
(* (surface.py: SurfaceCodeCycle, HeavyHexCode) and the logical qubit      *)
(* (logical_qubit.py: LQubit) over a lattice with an activation mask.      *)
(*                                                                         *)
(* A circuit is a record [status, num_qubits, cregs, ops]: cregs is the    *)
(* sequence of classical-register widths, ops the sequence of appended     *)
(* operations.  A gate is [name, qubits, clbits]; an appended gadget is    *)
(* [name, qubits, clbits, body] with body the gadget's own gate sequence   *)
(* (its classical bit k is clbits[k+1] of the enclosing circuit).          *)
(***************************************************************************)
EXTENDS Integers, Sequences, FiniteSets, TLC

VARIABLES
    active,    \* square lattice: nodes[i].active
    graph,     \* square lattice: graph[i], sequence of edges [node, active]
    m_node,    \* LQubit.m_node
    a_node,    \* LQubit.a_node
    type,      \* LQubit.type (TRUE: Z-cut, FALSE: X-cut)
    phase,     \* LQubit lifecycle: "uninitialized", "live", "measured"
    op,        \* the last operation called
    qc,        \* the value the last operation returned
    requested, \* the num_cycles argument of the last _circuit call
    built,     \* the rounds cycle._circuit built during the last move_cell
    start,     \* argument of route / move_cell
    end,       \* argument of route / move_cell
    route,     \* route(): the returned list; move_cell(): its local route list
    hroles,    \* heavy-hex lattice: role of each node
    hactive,   \* heavy-hex lattice: nodes[i].active
    hgraph     \* heavy-hex lattice: graph[i], sequence of edges [node, active]

vars == <<active, graph, m_node, a_node, type, phase, op, qc, requested, built,
          start, end, route, hroles, hactive, hgraph>>

squareVars == <<active, graph, m_node, a_node, type, phase, built>>
hexVars == <<hroles, hactive, hgraph>>

(***************************************************************************)
(* Bounds                                                                  *)
(***************************************************************************)
Width == 3
Height == 3
MaxCycles == 3

(***************************************************************************)
(* Square lattice (lattice.py is not part of the sources: modelled from    *)
(* the specification, sections 3 and 4.1)                                  *)
(***************************************************************************)
NumNodes == Width * Height
Nodes == 0 .. (NumNodes - 1)

Col(i) == i % Width
Row(i) == i \div Width

\* Checkerboard roles: data qubits where column+row is even, measure
\* qubits elsewhere, Z on even rows and X on odd rows.
Role(i) ==
    IF (Col(i) + Row(i)) % 2 = 0 THEN "DataNode"
    ELSE IF Row(i) % 2 = 0 THEN "ZNode" ELSE "XNode"

GridAdjacent(i, k) ==
    /\ i \in Nodes
    /\ k \in Nodes
    /\ \/ Row(i) = Row(k) /\ (Col(i) - Col(k) = 1 \/ Col(k) - Col(i) = 1)
       \/ Col(i) = Col(k) /\ (Row(i) - Row(k) = 1 \/ Row(k) - Row(i) = 1)

\* graph[i] at construction: the grid neighbours of i, every edge active.
InitEdges(i) ==
    LET cand == <<i - 1, i + 1, i - Width, i + Width>>
        ok(k) == GridAdjacent(i, k)
        kept == SelectSeq(cand, ok)
    IN [n \in 1 .. Len(kept) |-> [node |-> kept[n], active |-> TRUE]]

InitGraph == [i \in Nodes |-> InitEdges(i)]
InitActive == [i \in Nodes |-> TRUE]

\* _switch_node(index, val): nodes[index].active := val
SwitchActive(act, index, val) == [act EXCEPT ![index] = val]

\* _switch_node(index, val): every edge record that caches index is updated
SwitchGraph(g, index, val) ==
    [i \in DOMAIN g |->
        [n \in 1 .. Len(g[i]) |->
            IF g[i][n].node = index
            THEN [node |-> index, active |-> val]
            ELSE g[i][n]]]

(***************************************************************************)
(* Circuit values                                                          *)
(***************************************************************************)
Gate(name, qubits, clbits) ==
    [name |-> name, qubits |-> qubits, clbits |-> clbits]

Barrier == Gate("barrier", <<>>, <<>>)

Range(n) == [k \in 1 .. n |-> k - 1]

\* qc.append(instruction, range(num_nodes), clbits)
AppendInst(name, body, n, clbits) ==
    [name |-> name, qubits |-> Range(n), clbits |-> clbits, body |-> body]

Error == [status |-> "error", num_qubits |-> 0, cregs |-> <<>>, ops |-> <<>>]
NoCircuit == [status |-> "none", num_qubits |-> 0, cregs |-> <<>>, ops |-> <<>>]

Circuit(n, cregs, ops) ==
    [status |-> "ok", num_qubits |-> n, cregs |-> cregs, ops |-> ops]

\* activeNeighbours: the targets of the edges of g[q] whose cached flag is set
ActiveNeighbours(g, q) ==
    LET isActive(e) == e.active = TRUE
        edges == SelectSeq(g[q], isActive)
    IN [n \in 1 .. Len(edges) |-> edges[n].node]

(***************************************************************************)
(* SurfaceCodeCycle                                                        *)
(***************************************************************************)
\* SurfaceCodeCycle._measure_z(qZ): the gadget's gates
measure_z(g, qZ) ==
    LET nb == ActiveNeighbours(g, qZ)
    IN <<Gate("id", <<qZ>>, <<>>), Gate("reset", <<qZ>>, <<>>)>>
       \o [n \in 1 .. Len(nb) |-> Gate("cx", <<nb[n], qZ>>, <<>>)]
       \o <<Gate("measure", <<qZ>>, <<0>>), Gate("id", <<qZ>>, <<>>)>>

\* SurfaceCodeCycle._measure_x(qX): the gadget's gates
measure_x(g, qX) ==
    LET nb == ActiveNeighbours(g, qX)
    IN <<Gate("reset", <<qX>>, <<>>), Gate("h", <<qX>>, <<>>)>>
       \o [n \in 1 .. Len(nb) |-> Gate("cx", <<qX, nb[n]>>, <<>>)]
       \o <<Gate("h", <<qX>>, <<>>), Gate("measure", <<qX>>, <<0>>)>>

\* classicalBitLoc = i + j * num_nodes
ClassicalBitLoc(i, j) == i + j * NumNodes

\* CycleNode with "else" for "elif type(node) == XNode": every node that is
\* not a ZNode gets a measure_x gadget
CycleNode_ElseBranch(g, i, j) ==
    IF Role(i) = "ZNode"
    THEN <<AppendInst("measure_z", measure_z(g, i), NumNodes,
                      <<ClassicalBitLoc(i, j)>>)>>
    ELSE <<AppendInst("measure_x", measure_x(g, i), NumNodes,
                      <<ClassicalBitLoc(i, j)>>)>>

\* the body of "for i in self.lattice.graph.keys()" for node i of round j
CycleNode(g, i, j) ==
    IF Role(i) = "ZNode"
    THEN <<AppendInst("measure_z", measure_z(g, i), NumNodes,
                      <<ClassicalBitLoc(i, j)>>)>>
    ELSE IF Role(i) = "XNode"
    THEN <<AppendInst("measure_x", measure_x(g, i), NumNodes,
                      <<ClassicalBitLoc(i, j)>>)>>
    ELSE <<>>

RECURSIVE CycleNodes(_, _, _)
CycleNodes(g, i, j) ==
    IF i >= NumNodes THEN <<>>
    ELSE CycleNode(g, i, j) \o CycleNodes(g, i + 1, j)

\* CycleRound without the closing qc.barrier()
CycleRound_NoBarrier(g, j) == CycleNodes(g, 0, j)

\* one iteration of "for j in range(num_cycles)": the gadgets, then a barrier
CycleRound(g, j) == CycleNodes(g, 0, j) \o <<Barrier>>

RECURSIVE CycleRounds(_, _, _)
CycleRounds(g, j, num_cycles) ==
    IF j >= num_cycles THEN <<>>
    ELSE CycleRound(g, j) \o CycleRounds(g, j + 1, num_cycles)

\* SurfaceCodeCycle._circuit(num_cycles)
SurfaceCircuit(g, num_cycles) ==
    Circuit(NumNodes, [k \in 1 .. num_cycles |-> NumNodes],
            CycleRounds(g, 0, num_cycles))

(***************************************************************************)
(* LQubit.route                                                            *)
(***************************************************************************)
Last(s) == s[Len(s)]

\* first while loop: the coordinates appended after (x, y) while the
\* column differs from c_end[0]
RECURSIVE RouteColumns(_, _, _)
RouteColumns(x, y, c_end) ==
    IF x = c_end[1] THEN <<>>
    ELSE IF x > c_end[1]
         THEN <<<<x - 1, y>>>> \o RouteColumns(x - 1, y, c_end)
         ELSE <<<<x + 1, y>>>> \o RouteColumns(x + 1, y, c_end)

\* second while loop: the coordinates appended after (x, y) while the row
\* differs from c_end[1]
RECURSIVE RouteRows(_, _, _)
RouteRows(x, y, c_end) ==
    IF y = c_end[2] THEN <<>>
    ELSE IF y > c_end[2]
         THEN <<<<x, y - 1>>>> \o RouteRows(x, y - 1, c_end)
         ELSE <<<<x, y + 1>>>> \o RouteRows(x, y + 1, c_end)

\* RouteCoords with the two while loops in the other order
RouteCoords_RowsFirst(c_start, c_end) ==
    LET rows == <<c_start>> \o RouteRows(c_start[1], c_start[2], c_end)
    IN rows \o RouteColumns(Last(rows)[1], Last(rows)[2], c_end)

\* the list of coordinates route() builds
RouteCoords(c_start, c_end) ==
    LET cols == <<c_start>> \o RouteColumns(c_start[1], c_start[2], c_end)
    IN cols \o RouteRows(Last(cols)[1], Last(cols)[2], c_end)

\* Route with the final map written x[1] + width * x[0]
Route_SwappedIndex(s, e) ==
    LET c_start == <<s % Width, s \div Width>>
        c_end == <<e % Width, e \div Width>>
        r == RouteCoords(c_start, c_end)
    IN [n \in 1 .. Len(r) |-> r[n][2] + Width * r[n][1]]

\* LQubit.route(start, end)
Route(s, e) ==
    LET c_start == <<s % Width, s \div Width>>
        c_end == <<e % Width, e \div Width>>
        r == RouteCoords(c_start, c_end)
    IN [n \in 1 .. Len(r) |-> r[n][1] + Width * r[n][2]]

(***************************************************************************)
(* LQubit                                                                  *)
(***************************************************************************)
\* QuantumCircuit resolves an integer qubit argument by list indexing:
\* -num_qubits .. num_qubits-1 are accepted, anything else raises.
Resolves(idx) == idx >= -NumNodes /\ idx < NumNodes

Raises(gates) ==
    \E n \in 1 .. Len(gates) :
        \E k \in 1 .. Len(gates[n].qubits) : ~Resolves(gates[n].qubits[k])

\* LQubit.initialize: the gates between the switches and the barrier
InitializeGates(m, t) ==
    (IF t
     THEN <<Gate("cx", <<m + 1, m>>, <<>>),
            Gate("cx", <<m - 1, m>>, <<>>),
            Gate("cx", <<m + Width, m>>, <<>>),
            Gate("cx", <<m - Width, m>>, <<>>)>>
     ELSE <<Gate("h", <<m>>, <<>>),
            Gate("cx", <<m, m + 1>>, <<>>),
            Gate("cx", <<m, m - 1>>, <<>>),
            Gate("cx", <<m, m + Width>>, <<>>),
            Gate("cx", <<m, m - Width>>, <<>>),
            Gate("h", <<m>>, <<>>)>>)
    \o <<Gate("measure", <<m>>, <<0>>)>>

\* LQubit.measure: the gates before the switches
MeasureGates(m, t) ==
    (IF t
     THEN <<Gate("cx", <<m + 1, m>>, <<>>),
            Gate("cx", <<m - 1, m>>, <<>>),
            Gate("cx", <<m + Width, m>>, <<>>),
            Gate("cx", <<m - Width, m>>, <<>>)>>
     ELSE <<Gate("h", <<m>>, <<>>),
            Gate("cx", <<m, m + 1>>, <<>>),
            Gate("cx", <<m, m - 1>>, <<>>),
            Gate("cx", <<m, m + Width>>, <<>>),
            Gate("cx", <<m, m - Width>>, <<>>),
            Gate("h", <<m>>, <<>>)>>)
    \o <<Gate("measure", <<m>>, <<0>>)>>

\* LQubit.initialize(): both nodes are switched off before any gate is
\* appended, so they stay off when a gate raises.
initialize ==
    /\ active' = SwitchActive(SwitchActive(active, m_node, FALSE), a_node, FALSE)
    /\ graph' = SwitchGraph(SwitchGraph(graph, m_node, FALSE), a_node, FALSE)
    /\ op' = "initialize"
    /\ IF Raises(InitializeGates(m_node, type))
       THEN qc' = Error /\ phase' = phase
       ELSE /\ qc' = Circuit(NumNodes, <<1>>,
                             InitializeGates(m_node, type) \o <<Barrier>>)
            /\ phase' = "live"
    /\ UNCHANGED <<m_node, a_node, type, built, requested, start, end, route>>
    /\ UNCHANGED hexVars

\* LQubit.measure(): the nodes are switched on after the gates, so a gate
\* that raises leaves them as they were.
measure ==
    /\ op' = "measure"
    /\ IF Raises(MeasureGates(m_node, type))
       THEN qc' = Error /\ UNCHANGED <<active, graph, phase>>
       ELSE /\ qc' = Circuit(NumNodes, <<1>>,
                             MeasureGates(m_node, type) \o <<Barrier>>)
            /\ active' = SwitchActive(SwitchActive(active, m_node, TRUE),
                                      a_node, TRUE)
            /\ graph' = SwitchGraph(SwitchGraph(graph, m_node, TRUE),
                                    a_node, TRUE)
            /\ phase' = "measured"
    /\ UNCHANGED <<m_node, a_node, type, built, requested, start, end, route>>
    /\ UNCHANGED hexVars

\* a call cycle._circuit(num_cycles) on the square lattice
cycle(num_cycles) ==
    /\ op' = "cycle"
    /\ requested' = num_cycles
    /\ qc' = SurfaceCircuit(graph, num_cycles)
    /\ UNCHANGED <<squareVars, start, end, route>>
    /\ UNCHANGED hexVars

SeqRange(r) == {r[n] : n \in 1 .. Len(r)}

\* "for i in route: self.lattice._switch_node(i, val)": every node of the
\* route gets the same val, so the loop's result is that of one pass
SwitchAllActive(act, r, val) ==
    [i \in DOMAIN act |-> IF i \in SeqRange(r) THEN val ELSE act[i]]

SwitchAllGraph(g, r, val) ==
    [i \in DOMAIN g |->
        [n \in 1 .. Len(g[i]) |->
            IF g[i][n].node \in SeqRange(r)
            THEN [node |-> g[i][n].node, active |-> val]
            ELSE g[i][n]]]

\* route.pop()
Pop(r) == SubSeq(r, 1, Len(r) - 1)

\* qc.compose(other) with the default inplace=False returns a new circuit
\* and leaves qc as it was; move_cell drops the returned circuit.
Compose(circ, other) == circ

\* LQubit.move_cell(cycle, start, end) with the arguments drawn at Init
move_cell ==
    LET r == Route(start, end)
        act1 == SwitchAllActive(active, r, FALSE)
        g1 == SwitchAllGraph(graph, r, FALSE)
        round1 == SurfaceCircuit(g1, 1)
        act2 == SwitchAllActive(act1, Pop(r), TRUE)
        g2 == SwitchAllGraph(g1, Pop(r), TRUE)
        round2 == SurfaceCircuit(g2, 1)
        qc0 == Circuit(NumNodes, <<3 * (NumNodes \div 2)>>, <<>>)
    IN /\ op = "none"
       /\ op' = "move_cell"
       /\ route' = Pop(r)
       /\ built' = <<[circ |-> round1, active |-> act1],
                     [circ |-> round2, active |-> act2]>>
       /\ active' = act2
       /\ graph' = g2
       /\ qc' = Compose(Compose(qc0, round1), round2)
       /\ UNCHANGED <<m_node, a_node, type, phase, requested, start, end>>
       /\ UNCHANGED hexVars

\* a call self.route(start, end) with the arguments drawn at Init
call_route ==
    /\ op = "none"
    /\ op' = "route"
    /\ route' = Route(start, end)
    /\ UNCHANGED <<squareVars, qc, requested, start, end>>
    /\ UNCHANGED hexVars

(***************************************************************************)
(* Heavy-hex lattice (lattice.py is not part of the sources: a fragment    *)
(* modelled from the specification, section 4.3, and the diagrams in the   *)
(* docstrings of HeavyHexCode)                                             *)
(*                                                                         *)
(*      0          5                                                       *)
(*      |          |                                                       *)
(*      2 -- 3 --  4          nodes 2 and 4 flank ancilla 3;               *)
(*      |          |          ancilla 7 sits between data 1 and data 6     *)
(*      1 -- 7 --  6                                                       *)
(***************************************************************************)
HexAdjacency ==
    <<  <<2>>, <<2, 7>>, <<0, 3, 1>>, <<2, 4>>,
        <<5, 3, 6>>, <<4>>, <<4, 7>>, <<1, 6>>  >>

HexNumNodes == Len(HexAdjacency)
HexNodes == 0 .. (HexNumNodes - 1)

HexInitGraph ==
    [i \in HexNodes |->
        [n \in 1 .. Len(HexAdjacency[i + 1]) |->
            [node |-> HexAdjacency[i + 1][n], active |-> TRUE]]]

\* The roles of the diagram; the two nodes flanking ancilla 3 take any role.
HexRoleSet == {"DataNode", "FlagNode", "AncillaNode", "BaseNode"}

HexRoles(r2, r4) ==
    [i \in HexNodes |->
        IF i = 2 THEN r2
        ELSE IF i = 4 THEN r4
        ELSE IF i \in {3, 7} THEN "AncillaNode"
        ELSE "DataNode"]

(***************************************************************************)
(* HeavyHexCode                                                            *)
(***************************************************************************)
Failed == [err |-> TRUE, ops |-> <<>>]
Ok(ops) == [err |-> FALSE, ops |-> ops]

AllData(roles, s) == \A n \in 1 .. Len(s) : roles[s[n]] = "DataNode"

\* HeavyHexCode._measure_z(qZ)
hh_measure_z(g, roles, qZ) ==
    LET keep(e) == e.active = TRUE /\ roles[e.node] # "AncillaNode"
        edges == SelectSeq(g[qZ], keep)
        dataNeighbours == [n \in 1 .. Len(edges) |-> edges[n].node]
    IN IF roles[qZ] # "FlagNode" THEN Failed
       ELSE IF ~AllData(roles, dataNeighbours) THEN Failed
       ELSE IF Len(dataNeighbours) < 2 THEN Failed
       ELSE Ok(<<Gate("reset", <<qZ>>, <<>>),
                 Gate("cx", <<dataNeighbours[2], qZ>>, <<>>),
                 Gate("cx", <<dataNeighbours[1], qZ>>, <<>>),
                 Gate("measure", <<qZ>>, <<0>>)>>)

\* HeavyHexCode._measure_x_2(qX)
measure_x_2(g, roles, qX) ==
    LET dataNeighbours == ActiveNeighbours(g, qX)
    IN IF roles[qX] # "AncillaNode" THEN Failed
       ELSE IF Len(dataNeighbours) < 2 THEN Failed
       ELSE Ok(<<Gate("reset", <<qX>>, <<>>),
                 Gate("cx", <<qX, dataNeighbours[2]>>, <<>>),
                 Gate("cx", <<qX, dataNeighbours[1]>>, <<>>),
                 Gate("measure", <<qX>>, <<0>>)>>)

\* the inner loop of _measure_x_4: the active neighbours of flag other than qX
FlagData(g, flag, qX) ==
    LET keep(e) == e.active = TRUE /\ e.node # qX
        edges == SelectSeq(g[flag], keep)
    IN [n \in 1 .. Len(edges) |-> edges[n].node]

RECURSIVE AllFlagData(_, _, _)
AllFlagData(g, flags, qX) ==
    IF flags = <<>> THEN <<>>
    ELSE FlagData(g, Head(flags), qX) \o AllFlagData(g, Tail(flags), qX)

\* X4Gates with each flag's data neighbours taken in list order
\* (dataNeighbours[2], [0], [3], [1])
X4Gates_InOrder(qX, flagNeighbours, dataNeighbours) ==
    <<Gate("reset", <<qX>>, <<>>),
      Gate("h", <<qX>>, <<>>),
      Gate("reset", flagNeighbours, <<>>),
      Gate("cx", <<qX, flagNeighbours[2]>>, <<>>),
      Gate("cx", <<qX, flagNeighbours[1]>>, <<>>),
      Gate("cx", <<flagNeighbours[2], dataNeighbours[3]>>, <<>>),
      Gate("cx", <<flagNeighbours[1], dataNeighbours[1]>>, <<>>),
      Gate("cx", <<flagNeighbours[2], dataNeighbours[4]>>, <<>>),
      Gate("cx", <<flagNeighbours[1], dataNeighbours[2]>>, <<>>),
      Gate("cx", <<qX, flagNeighbours[2]>>, <<>>),
      Gate("cx", <<qX, flagNeighbours[1]>>, <<>>),
      Gate("measure", flagNeighbours, <<0, 1>>),
      Gate("h", <<qX>>, <<>>),
      Gate("measure", <<qX>>, <<2>>)>>

\* the gates of _measure_x_4, from its lists flagNeighbours and
\* dataNeighbours (Python index k is index k+1 here)
X4Gates(qX, flagNeighbours, dataNeighbours) ==
    <<Gate("reset", <<qX>>, <<>>),
      Gate("h", <<qX>>, <<>>),
      Gate("reset", flagNeighbours, <<>>),
      Gate("cx", <<qX, flagNeighbours[2]>>, <<>>),
      Gate("cx", <<qX, flagNeighbours[1]>>, <<>>),
      Gate("cx", <<flagNeighbours[2], dataNeighbours[3]>>, <<>>),
      Gate("cx", <<flagNeighbours[1], dataNeighbours[2]>>, <<>>),
      Gate("cx", <<flagNeighbours[2], dataNeighbours[4]>>, <<>>),
      Gate("cx", <<flagNeighbours[1], dataNeighbours[1]>>, <<>>),
      Gate("cx", <<qX, flagNeighbours[2]>>, <<>>),
      Gate("cx", <<qX, flagNeighbours[1]>>, <<>>),
      Gate("measure", flagNeighbours, <<0, 1>>),
      Gate("h", <<qX>>, <<>>),
      Gate("measure", <<qX>>, <<2>>)>>

\* HeavyHexCode._measure_x_4(qX): fails on a non-data neighbour of a flag
\* (assert), on fewer than two flags or four data neighbours (list index)
\* and on more than two flags (two classical bits for the flags' measure)
measure_x_4(g, roles, qX) ==
    LET flagNeighbours == ActiveNeighbours(g, qX)
        dataNeighbours == AllFlagData(g, flagNeighbours, qX)
    IN IF roles[qX] # "AncillaNode" THEN Failed
       ELSE IF ~AllData(roles, dataNeighbours) THEN Failed
       ELSE IF Len(flagNeighbours) # 2 \/ Len(dataNeighbours) < 4 THEN Failed
       ELSE Ok(X4Gates(qX, flagNeighbours, dataNeighbours))

HexBitLoc(i, j) == i + j * HexNumNodes

\* "if type(node) == FlagNode" of HeavyHexCode._circuit
HexFlagStep(g, roles, i, j) ==
    IF roles[i] = "FlagNode"
    THEN LET inst == hh_measure_z(g, roles, i)
         IN IF inst.err THEN Failed
            ELSE Ok(<<AppendInst("measure_z", inst.ops, HexNumNodes,
                                 <<HexBitLoc(i, j)>>)>>)
    ELSE Ok(<<>>)

\* "if type(self.lattice.nodes[neighbour1]) is DataNode"
HexAncillaData(g, roles, i, j, neighbour1, neighbour2) ==
    IF roles[neighbour1] = "DataNode"
    THEN IF roles[neighbour2] # "DataNode" THEN Failed
         ELSE LET inst == measure_x_2(g, roles, i)
              IN IF inst.err THEN Failed
                 ELSE Ok(<<AppendInst("measure_x_2", inst.ops, HexNumNodes,
                                      <<HexBitLoc(i, j)>>)>>)
    ELSE Ok(<<>>)

\* "if type(self.lattice.nodes[neighbour1]) is FlagNode"
HexAncillaFlag(g, roles, i, j, neighbour1, neighbour2) ==
    IF roles[neighbour1] = "FlagNode"
    THEN LET inst == measure_x_4(g, roles, i)
         IN IF inst.err THEN Failed
            ELSE Ok(<<AppendInst("measure_x_4", inst.ops, HexNumNodes,
                                 <<HexBitLoc(neighbour1, j),
                                   HexBitLoc(neighbour2, j),
                                   HexBitLoc(i, j)>>)>>)
    ELSE Ok(<<>>)

\* "if type(node) == AncillaNode" of HeavyHexCode._circuit
HexAncillaStep(g, roles, i, j) ==
    IF roles[i] = "AncillaNode"
    THEN IF Len(g[i]) < 2 THEN Failed
         ELSE LET neighbour1 == g[i][1].node
                  neighbour2 == g[i][2].node
                  d == HexAncillaData(g, roles, i, j, neighbour1, neighbour2)
                  f == HexAncillaFlag(g, roles, i, j, neighbour1, neighbour2)
              IN IF d.err \/ f.err THEN Failed ELSE Ok(d.ops \o f.ops)
    ELSE Ok(<<>>)

\* the body of "for i in self.lattice.graph.keys()" for node i of round j
HexNode(g, roles, i, j) ==
    LET f == HexFlagStep(g, roles, i, j)
        a == HexAncillaStep(g, roles, i, j)
    IN IF f.err \/ a.err THEN Failed ELSE Ok(f.ops \o a.ops)

RECURSIVE HexCycleNodes(_, _, _, _)
HexCycleNodes(g, roles, i, j) ==
    IF i >= HexNumNodes THEN Ok(<<>>)
    ELSE LET here == HexNode(g, roles, i, j)
             rest == HexCycleNodes(g, roles, i + 1, j)
         IN IF here.err \/ rest.err THEN Failed ELSE Ok(here.ops \o rest.ops)

RECURSIVE HexCycleRounds(_, _, _, _)
HexCycleRounds(g, roles, j, num_cycles) ==
    IF j >= num_cycles THEN Ok(<<>>)
    ELSE LET here == HexCycleNodes(g, roles, 0, j)
             rest == HexCycleRounds(g, roles, j + 1, num_cycles)
         IN IF here.err \/ rest.err THEN Failed
            ELSE Ok(here.ops \o <<Barrier>> \o rest.ops)

\* HeavyHexCode._circuit(num_cycles)
HeavyHexCircuit(g, roles, num_cycles) ==
    LET r == HexCycleRounds(g, roles, 0, num_cycles)
    IN IF r.err THEN Error
       ELSE Circuit(HexNumNodes, [k \in 1 .. num_cycles |-> HexNumNodes], r.ops)

\* a call HeavyHexCode(lattice)._circuit(num_cycles)
hex_cycle(num_cycles) ==
    /\ op' = "hex_cycle"
    /\ requested' = num_cycles
    /\ qc' = HeavyHexCircuit(hgraph, hroles, num_cycles)
    /\ UNCHANGED <<squareVars, start, end, route>>
    /\ UNCHANGED hexVars

\* a call lattice._switch_node(index, val) on the heavy-hex lattice
hex_switch_node(index, val) ==
    /\ hactive[index] # val
    /\ op' = "switch_node"
    /\ hactive' = SwitchActive(hactive, index, val)
    /\ hgraph' = SwitchGraph(hgraph, index, val)
    /\ UNCHANGED <<squareVars, qc, requested, start, end, route, hroles>>

(***************************************************************************)
(* Specifications                                                          *)
(***************************************************************************)
\* what every specification leaves at rest
SquareFresh ==
    /\ active = InitActive
    /\ graph = InitGraph
    /\ phase = "uninitialized"
    /\ built = <<>>

HexFresh(r2, r4) ==
    /\ hroles = HexRoles(r2, r4)
    /\ hactive = [i \in HexNodes |-> TRUE]
    /\ hgraph = HexInitGraph

\* LQubit(lattice, m_node, a_node, type) on a new square lattice
Init ==
    /\ SquareFresh
    /\ m_node \in Nodes
    /\ a_node \in Nodes
    /\ type \in BOOLEAN
    /\ op = "none"
    /\ qc = NoCircuit
    /\ requested = 0
    /\ start = 0 /\ end = 0 /\ route = <<>>
    /\ HexFresh("FlagNode", "FlagNode")

Next ==
    \/ initialize
    \/ measure
    \/ \E n \in 0 .. MaxCycles : cycle(n)

Spec == Init /\ [][Next]_vars

\* route(start, end) and move_cell(cycle, start, end) for every pair of
\* nodes of a new square lattice
InitRoute ==
    /\ SquareFresh
    /\ m_node = 0 /\ a_node = 0 /\ type = TRUE
    /\ op = "none"
    /\ qc = NoCircuit
    /\ requested = 0
    /\ start \in Nodes
    /\ end \in Nodes
    /\ route = <<>>
    /\ HexFresh("FlagNode", "FlagNode")

NextRoute ==
    \/ call_route
    \/ move_cell

SpecRoute == InitRoute /\ [][NextRoute]_vars

\* HeavyHexCode on the heavy-hex fragment
InitHex ==
    /\ SquareFresh
    /\ m_node = 0 /\ a_node = 0 /\ type = TRUE
    /\ op = "none"
    /\ qc = NoCircuit
    /\ requested = 0
    /\ start = 0 /\ end = 0 /\ route = <<>>
    /\ \E r2 \in HexRoleSet, r4 \in HexRoleSet : HexFresh(r2, r4)

NextHex ==
    \/ \E n \in 1 .. MaxCycles : hex_cycle(n)
    \/ \E i \in HexNodes, val \in BOOLEAN : hex_switch_node(i, val)

SpecHex == InitHex /\ [][NextHex]_vars

(***************************************************************************)
(* Properties                                                              *)
(***************************************************************************)
IsBarrier(o) == o.name = "barrier"

\* the round an operation belongs to: the number of barriers before it
RoundOf(ops, k) == Cardinality({n \in 1 .. (k - 1) : IsBarrier(ops[n])})

Barriers(ops) == {n \in 1 .. Len(ops) : IsBarrier(ops[n])}

\* the node a gadget is for: the qubit of its last measure
GadgetNode(o) ==
    LET isMeasure(x) == x.name = "measure"
    IN Last(SelectSeq(o.body, isMeasure)).qubits[1]

\* the gadgets of node i in round j
GadgetsAt(ops, i, j) ==
    {k \in 1 .. Len(ops) :
        ~IsBarrier(ops[k]) /\ RoundOf(ops, k) = j /\ GadgetNode(ops[k]) = i}

GateQubits(x) == SeqRange(x.qubits)

Reverse(s) == [n \in 1 .. Len(s) |-> s[Len(s) + 1 - n]]

Abs(x) == IF x < 0 THEN -x ELSE x

MemberNodes == {m_node, a_node}

----------------------------------------------------------------------------
\* C1: in every round j of SurfaceCodeCycle._circuit(num_cycles) each ZNode
\* has exactly one measure_z gadget and each XNode exactly one measure_x
\* gadget, a node of any other role has none, and the gadget of node i in
\* round j writes classical bit i + j*num_nodes.
C1_OneGadgetPerMeasureNode ==
    op = "cycle" =>
        /\ \A k \in 1 .. Len(qc.ops) : RoundOf(qc.ops, k) < requested
        /\ \A j \in 0 .. (requested - 1) : \A i \in Nodes :
            LET G == GadgetsAt(qc.ops, i, j)
                label == IF Role(i) = "ZNode" THEN "measure_z" ELSE "measure_x"
            IN IF Role(i) \in {"ZNode", "XNode"}
               THEN /\ Cardinality(G) = 1
                    /\ \A k \in G :
                        /\ qc.ops[k].name = label
                        /\ qc.ops[k].clbits = <<i + j * NumNodes>>
               ELSE G = {}

\* C1 witness: at least two rounds built while the logical qubit is live
C1_Witness ==
    /\ op = "cycle"
    /\ requested >= 2
    /\ phase = "live"
    /\ \E k \in 1 .. Len(qc.ops) : ~IsBarrier(qc.ops[k]) /\ RoundOf(qc.ops, k) = 1

----------------------------------------------------------------------------
\* C2 (as claimed): initialize() switches exactly m_node and a_node off and
\* measure() switches exactly those two back on; every other node keeps its
\* active flag.
C2_ExactlyMemberNodesSwitched ==
    [][ /\ op' = "initialize" =>
            active' = [i \in Nodes |->
                          IF i \in MemberNodes THEN FALSE ELSE active[i]]
        /\ op' = "measure" =>
            active' = [i \in Nodes |->
                          IF i \in MemberNodes THEN TRUE ELSE active[i]]
      ]_vars

----------------------------------------------------------------------------
\* C3 (as claimed): route(b, a) is the reverse of route(a, b) for any two
\* nodes a and b.
C3_RouteSymmetric ==
    op = "route" => Route(end, start) = Reverse(route)

\* C3 (amended): route(b, a) has the length of route(a, b), starts at b and
\* ends at a, and it is the reverse of route(a, b) exactly when a and b
\* share a row or a column.
C3_RouteSymmetricOnLines ==
    op = "route" =>
        LET back == Route(end, start)
        IN /\ Len(back) = Len(route)
           /\ back[1] = end
           /\ Last(back) = start
           /\ (back = Reverse(route))
                <=> (Col(start) = Col(end) \/ Row(start) = Row(end))

\* C3 witness: a route between nodes that differ in column and row
C3_Witness ==
    /\ op = "route"
    /\ Col(start) # Col(end)
    /\ Row(start) # Row(end)
    /\ Route(end, start) # Reverse(route)

----------------------------------------------------------------------------
\* C4 (as claimed): for an AncillaNode whose two neighbours are both
\* DataNode the circuit holds a measure_x_2 gadget, for two FlagNode
\* neighbours a measure_x_4 gadget, and for every other combination of
\* neighbour roles construction fails.
AncillaGadgets(i) ==
    {k \in 1 .. Len(qc.ops) : ~IsBarrier(qc.ops[k]) /\ GadgetNode(qc.ops[k]) = i}

C4_AncillaDispatch ==
    op = "hex_cycle" =>
        \A i \in HexNodes :
            hroles[i] = "AncillaNode" =>
                LET r1 == hroles[hgraph[i][1].node]
                    r2 == hroles[hgraph[i][2].node]
                IN IF r1 = "DataNode" /\ r2 = "DataNode"
                   THEN qc.status = "ok" =>
                            /\ AncillaGadgets(i) # {}
                            /\ \A k \in AncillaGadgets(i) :
                                   qc.ops[k].name = "measure_x_2"
                   ELSE IF r1 = "FlagNode" /\ r2 = "FlagNode"
                   THEN qc.status = "ok" =>
                            /\ AncillaGadgets(i) # {}
                            /\ \A k \in AncillaGadgets(i) :
                                   qc.ops[k].name = "measure_x_4"
                   ELSE qc.status = "error"

----------------------------------------------------------------------------
\* C5 (as claimed): a round built while the logical qubit is live holds no
\* gadget for its measurement node or its ancilla node and no gate on them.
C5_LiveNodesExcluded ==
    (op = "cycle" /\ phase = "live") =>
        \A k \in 1 .. Len(qc.ops) :
            ~IsBarrier(qc.ops[k]) =>
                /\ GadgetNode(qc.ops[k]) \notin MemberNodes
                /\ \A n \in 1 .. Len(qc.ops[k].body) :
                       GateQubits(qc.ops[k].body[n]) \cap MemberNodes = {}

----------------------------------------------------------------------------
\* C6: route(start, end) starts at start, ends at end, first changes only
\* the column by single steps towards end's column, then only the row by
\* steps of width towards end's row, and has |dx| + |dy| + 1 elements; so
\* route(a, a) is <<a>>.
C6_RouteIsLShaped ==
    op = "route" =>
        LET dx == Col(end) - Col(start)
            dy == Row(end) - Row(start)
            sx == IF dx > 0 THEN 1 ELSE -1
            sy == IF dy > 0 THEN Width ELSE -Width
        IN /\ Len(route) = Abs(dx) + Abs(dy) + 1
           /\ route[1] = start
           /\ Last(route) = end
           /\ \A n \in 1 .. (Len(route) - 1) :
                IF n <= Abs(dx)
                THEN route[n + 1] = route[n] + sx /\ Row(route[n + 1]) = Row(start)
                ELSE route[n + 1] = route[n] + sy /\ Col(route[n + 1]) = Col(end)
           /\ (start = end => route = <<start>>)

\* C6 witness: a route that walks left and then up
C6_Witness ==
    /\ op = "route"
    /\ Col(start) > Col(end)
    /\ Row(start) > Row(end)
    /\ Len(route) >= 3

----------------------------------------------------------------------------
\* C7: the circuit of SurfaceCodeCycle._circuit(num_cycles) has num_cycles
\* classical registers of width num_nodes and num_cycles barriers, the last
\* operation of a non-empty circuit being a barrier, and no operation of it
\* names a qubit >= num_nodes or a classical bit >= num_cycles*num_nodes.
C7_RegistersBarriersIndices ==
    op = "cycle" =>
        /\ qc.status = "ok"
        /\ qc.num_qubits = NumNodes
        /\ Len(qc.cregs) = requested
        /\ \A k \in 1 .. Len(qc.cregs) : qc.cregs[k] = NumNodes
        /\ Cardinality(Barriers(qc.ops)) = requested
        /\ (requested > 0 => IsBarrier(Last(qc.ops)))
        /\ (requested = 0 => qc.ops = <<>>)
        /\ \A k \in 1 .. Len(qc.ops) :
            ~IsBarrier(qc.ops[k]) =>
                /\ GateQubits(qc.ops[k]) \subseteq 0 .. (NumNodes - 1)
                /\ SeqRange(qc.ops[k].clbits)
                       \subseteq 0 .. (requested * NumNodes - 1)
                /\ \A n \in 1 .. Len(qc.ops[k].body) :
                    /\ GateQubits(qc.ops[k].body[n]) \subseteq 0 .. (NumNodes - 1)
                    /\ SeqRange(qc.ops[k].body[n].clbits)
                           \subseteq 0 .. (Len(qc.ops[k].clbits) - 1)

\* C7 witness: three rounds, three registers, three barriers
C7_Witness ==
    /\ op = "cycle"
    /\ requested = 3
    /\ Len(qc.cregs) = 3
    /\ Cardinality(Barriers(qc.ops)) = 3

----------------------------------------------------------------------------
\* C8: the controlled-NOTs of a measure_x_4 gadget for ancilla A, with
\* flag0/flag1 the first/second active neighbour of A and d(f) the active
\* neighbours of flag f other than A, in adjacency order.
X4Cx(o) ==
    LET isCx(x) == x.name = "cx"
        cxs == SelectSeq(o.body, isCx)
    IN [n \in 1 .. Len(cxs) |-> cxs[n].qubits]

X4Flags(A) ==
    LET on(e) == e.active
        edges == SelectSeq(hgraph[A], on)
    IN [n \in 1 .. Len(edges) |-> edges[n].node]

X4Data(f, A) ==
    LET on(e) == e.active /\ e.node # A
        edges == SelectSeq(hgraph[f], on)
    IN [n \in 1 .. Len(edges) |-> edges[n].node]

X4Gadgets ==
    {k \in 1 .. Len(qc.ops) : qc.ops[k].name = "measure_x_4"}

\* C8 (as claimed): the flag-to-data controlled-NOTs are flag1 to its first
\* data neighbour, flag0 to its first, flag1 to its second, flag0 to its
\* second, between two pairs CX A->flag1, CX A->flag0.
C8_X4OrderFirstFirstSecondSecond ==
    op = "hex_cycle" =>
        \A k \in X4Gadgets :
            LET A == GadgetNode(qc.ops[k])
                f0 == X4Flags(A)[1]
                f1 == X4Flags(A)[2]
            IN X4Cx(qc.ops[k]) =
                <<  <<A, f1>>, <<A, f0>>,
                    <<f1, X4Data(f1, A)[1]>>, <<f0, X4Data(f0, A)[1]>>,
                    <<f1, X4Data(f1, A)[2]>>, <<f0, X4Data(f0, A)[2]>>,
                    <<A, f1>>, <<A, f0>>  >>

\* C8 (amended): the flag-to-data controlled-NOTs are flag1 to its first
\* data neighbour, flag0 to its second, flag1 to its second, flag0 to its
\* first, between two pairs CX A->flag1, CX A->flag0.
C8_X4OrderFirstSecondSecondFirst ==
    op = "hex_cycle" =>
        \A k \in X4Gadgets :
            LET A == GadgetNode(qc.ops[k])
                f0 == X4Flags(A)[1]
                f1 == X4Flags(A)[2]
            IN X4Cx(qc.ops[k]) =
                <<  <<A, f1>>, <<A, f0>>,
                    <<f1, X4Data(f1, A)[1]>>, <<f0, X4Data(f0, A)[2]>>,
                    <<f1, X4Data(f1, A)[2]>>, <<f0, X4Data(f0, A)[1]>>,
                    <<A, f1>>, <<A, f0>>  >>

\* C8 witness: a measure_x_4 gadget on the ancilla between two flags
C8_Witness ==
    /\ op = "hex_cycle"
    /\ hroles[2] = "FlagNode"
    /\ hroles[4] = "FlagNode"
    /\ \E k \in X4Gadgets : GadgetNode(qc.ops[k]) = 3

----------------------------------------------------------------------------
\* C9 (as claimed): move_cell returns the round built with every node of
\* route(start, end) inactive followed by the round built with only the
\* last route node still inactive.
C9_MoveCellReturnsTwoRounds ==
    op = "move_cell" =>
        LET r == Route(start, end)
        IN /\ Len(built) = 2
           /\ \A n \in 1 .. Len(r) : ~built[1].active[r[n]]
           /\ \A n \in 1 .. (Len(r) - 1) : built[2].active[r[n]]
           /\ ~built[2].active[Last(r)]
           /\ qc.ops = built[1].circ.ops \o built[2].circ.ops

----------------------------------------------------------------------------
\* C10 (as claimed): the circuit of initialize() and of measure() for a
\* measurement node m_node is built, and its controlled-NOTs couple m_node
\* with exactly its grid-adjacent nodes, each index within 0..num_nodes-1.
StabilizerPartners ==
    LET isCx(x) == x.name = "cx"
        cxs == SelectSeq(qc.ops, isCx)
    IN {IF type THEN cxs[n].qubits[1] ELSE cxs[n].qubits[2] : n \in 1 .. Len(cxs)}

C10_StabilizerOnGridNeighbours ==
    (op \in {"initialize", "measure"} /\ Role(m_node) \in {"ZNode", "XNode"}) =>
        /\ qc.status = "ok"
        /\ StabilizerPartners \subseteq 0 .. (NumNodes - 1)
        /\ StabilizerPartners = {k \in Nodes : GridAdjacent(m_node, k)}

====
